---- MODULE Spec2Model ----
(***************************************************************************)
(* A model of fact_check: LegalFactCheckService.verify_legal_blog          *)
(* (extract -> gather -> adjudicate), its evidence gatherer                *)
(* _gather_evidence_for_claim, and the search clients' sessions.           *)
(*                                                                         *)
(* The specifications share the variables and the operators:               *)
(*   SpecGather  one call of _gather_evidence_for_claim, its four          *)
(*               concurrent units completing in any order;                 *)
(*   Spec        one run of verify_legal_blog, the claims' gathering       *)
(*               tasks completing in any order;                            *)
(*   SpecJudge   one call of _generate_final_verdict_llm on the claims and *)
(*               bundles a gathering can leave, with every shape of        *)
(*               adjudication response.                                    *)
(*   SpecSilent  SpecGather with services that may never answer;           *)
(*   FairSpec    Spec with weak fairness of its steps;                     *)
(*   SpecExtract one call of extract_claims, with every shape of           *)
(*               extraction response;                                      *)
(*   SpecOverlap two runs of verify_legal_blog on one service,             *)
(*               interleaved in any way.                                   *)
(***************************************************************************)
EXTENDS Integers, Sequences, FiniteSets, TLC

\* Bounds of the model.
MaxClaims == 2
MaxRecords == 1
MaxLegal == 4       \* SpecJudge: the most records in a legal-database result

VARIABLES
    pc,                 \* position of the run / of the gathering coroutine
    academic_client,    \* TRUE iff self.academic_client is not None
    session,            \* per client: TRUE iff self.session is not None
    extracted_claims,   \* the LegalClaim list returned by extract_claims
    reply,              \* per source: how that service answers during this run
    unit,               \* SpecGather: per slot of asyncio.gather, "pending" | "done"
    response,           \* SpecGather: per source, what client.search() gave back
    gathered,           \* Spec: indices of the claims whose gathering task completed
    task_result,        \* Spec: per claim index, what its gathering task returned
    searched,           \* history: <<claim index, source>> of every search() invoked
    evidence_results,   \* the VerificationEvidence list asyncio.gather returned
    context_data,       \* the payload built for the adjudication oracle
    extracted_count,    \* history: how many claims extract_claims returned
    llm_calls,          \* history: number of generate_content_async calls, per oracle
    extract_kind,       \* history: what the extraction oracle gave ("none" before)
    judge_out,          \* history: <<>>, then <<what the adjudication oracle gave>>
    report,             \* <<>> until verify_legal_blog returns, then <<Report>>
    search_calls,       \* history: per <<claim index, source>>, the search() calls made
    run_pc,             \* SpecOverlap: per run, its position and its searches
    session_of,         \* SpecOverlap: per client, the run whose ClientSession
                        \*   object self.session holds (0 for None)
    live_sessions,      \* SpecOverlap: <<client, run>> of the ClientSession objects
                        \*   created and not closed
    run_failed,         \* SpecOverlap: history, <<run, client>> of the searches that
                        \*   raised for want of a usable session
    oracle_out          \* SpecExtract: what the extraction oracle gives

vars == <<pc, academic_client, session, extracted_claims, reply, unit, response,
          gathered, task_result, searched, evidence_results, context_data,
          extracted_count, llm_calls, extract_kind, judge_out, report,
          search_calls, run_pc, session_of, live_sessions, run_failed, oracle_out>>

\* The variables only SpecOverlap and SpecExtract change.
aside_vars == <<run_pc, session_of, live_sessions, run_failed, oracle_out>>

----------------------------------------------------------------------------
\* Python values the code passes around.

\* A Python list holding the sequence s.
PyList(s) == [py |-> "list", items |-> s]

\* Python's None, where a list was expected.
PyNone == [py |-> "None", items |-> <<>>]

\* dict.get(key, default) on a dict modelled as a function over its keys.
Get(d, key, default) == IF key \in DOMAIN d THEN d[key] ELSE default

\* {} : a dict without keys.
EmptyDict == [k \in {} |-> PyNone]

----------------------------------------------------------------------------
\* The four search clients and the claim categories.

Sources == {"indian_kanoon", "news", "fact_check", "academic"}

\* Claim types the extraction oracle may produce: the five of the prompt, one
\* of them in another letter case, and one the code does not know.
ClaimTypes ==
    {"case_law", "statute", "legal_fact", "date_fact", "general_fact",
     "Case_Law", "opinion"}

\* str.lower() on the claim types above.
Lower(t) == IF t = "Case_Law" THEN "case_law" ELSE t

\* The key under which each service returns its result collection.
ResultKey(src) ==
    CASE src = "indian_kanoon" -> "docs"
      [] src = "news" -> "items"
      [] src = "fact_check" -> "claims"
      [] src = "academic" -> "data"

\* One record of a result collection. A well-formed record is a JSON object;
\* a malformed one is anything the payload builder cannot read with x.get(...).
Hit(src, query, rank) == [shape |-> "dict", src |-> src, query |-> query, rank |-> rank]
BadHit(src, query) == [shape |-> "other", src |-> src, query |-> query, rank |-> 0]

HitCounts == 0..MaxRecords

\* The outcome of the HTTP exchange of one search: an exception (transport
\* error, timeout, non-2xx status), a JSON body that is not an object, or a
\* JSON object with or without the result key.
Raised == [kind |-> "raise", body |-> EmptyDict]
NonDict == [kind |-> "nondict", body |-> EmptyDict]
Json(d) == [kind |-> "dict", body |-> d]

Collections(src, query) ==
    {PyNone, PyList(<<BadHit(src, query)>>)} \cup
    {PyList([j \in 1..k |-> Hit(src, query, j)]) : k \in HitCounts}

Responses(src, query) ==
    {Raised, NonDict, Json(EmptyDict)} \cup
    {Json([k \in {ResultKey(src)} |-> c]) : c \in Collections(src, query)}


\* What client.search() hands back when no search was made.
NotCalled == [kind |-> "none", body |-> EmptyDict]

\* <Client>.search(query) on top of BaseAPIClient._make_request: http is what
\* the HTTP exchange would give. A search query is a number: 0 stands for the
\* empty string, i > 0 for the non-empty query derived for the i-th sentence.
ClientSearch(src, query, open, http) ==
    IF src = "indian_kanoon" /\ query = 0 THEN Raised       \* ValueError
    ELSE IF ~open THEN Raised                               \* RuntimeError
    ELSE http

----------------------------------------------------------------------------
\* _gather_evidence_for_claim

\* The result of an awaited coroutine: a value, or an exception.
Returned(v) == [raised |-> FALSE, value |-> v]
Threw == [raised |-> TRUE, value |-> PyNone]

\* The number of client.search() calls one fetch_* makes, whatever the call
\* gives (res): the call is in no loop. In the first, a failed call is re-issued.
SearchAttempts_retry(res) == IF res.kind = "raise" THEN 2 ELSE 1

SearchAttempts(res) == 1

\* No search() call made yet.
NoCalls == [c \in (1..MaxClaims) \X Sources |-> 0]

\* fetch_* without its try/except: an exception of search() or of res.get
\* leaves the coroutine.
fetch_uncaught(src, res) ==
    IF res.kind \in {"raise", "nondict"} THEN Threw
    ELSE Returned(Get(res.body, ResultKey(src), PyList(<<>>)))

\* fetch_kanoon, fetch_news, fetch_fact and the try block of fetch_academic:
\* res is what client.search() gave.
fetch(src, res) ==
    IF res.kind = "raise" THEN Returned(PyList(<<>>))
    ELSE IF res.kind = "nondict" THEN Returned(PyList(<<>>))  \* res.get raises
    ELSE Returned(Get(res.body, ResultKey(src), PyList(<<>>)))

fetch_academic(configured, res) ==
    IF ~configured THEN Returned(PyList(<<>>)) ELSE fetch("academic", res)

\* The routing conditions with the fact-check condition widened to statutes.
Routed_fact_for_statute(src, claim_type) ==
    CASE src = "indian_kanoon" -> claim_type \in {"case_law", "statute", "legal_fact"}
      [] src = "news" -> TRUE
      [] src = "fact_check" ->
            claim_type \in {"date_fact", "general_fact", "legal_fact", "statute"}
      [] src = "academic" -> claim_type \in {"case_law", "statute"}

\* The routing conditions with the legal database queried for every claim.
Routed_kanoon_for_all(src, claim_type) ==
    CASE src = "indian_kanoon" -> TRUE
      [] src = "news" -> TRUE
      [] src = "fact_check" -> claim_type \in {"date_fact", "general_fact", "legal_fact"}
      [] src = "academic" -> claim_type \in {"case_law", "statute"}

\* The routing conditions, on the lower-cased claim type.
Routed(src, claim_type) ==
    CASE src = "indian_kanoon" -> claim_type \in {"case_law", "statute", "legal_fact"}
      [] src = "news" -> TRUE
      [] src = "fact_check" -> claim_type \in {"date_fact", "general_fact", "legal_fact"}
      [] src = "academic" -> claim_type \in {"case_law", "statute"}

\* asyncio.sleep(0, result=[])
sleep_result == Returned(PyList(<<>>))

\* The task list handed to asyncio.gather, as the results of its four slots.
Tasks(claim, configured, res) ==
    LET claim_type == Lower(claim.claim_type)
    IN  << IF Routed("indian_kanoon", claim_type)
              THEN fetch("indian_kanoon", res["indian_kanoon"]) ELSE sleep_result,
           fetch("news", res["news"]),
           IF Routed("fact_check", claim_type)
              THEN fetch("fact_check", res["fact_check"]) ELSE sleep_result,
           IF Routed("academic", claim_type)
              THEN fetch_academic(configured, res["academic"]) ELSE sleep_result >>

\* asyncio.gather with its results in the reverse of the argument order.
asyncio_gather_reversed(tasks) ==
    IF \E i \in DOMAIN tasks : tasks[i].raised
       THEN [raised |-> TRUE, values |-> <<>>]
       ELSE [raised |-> FALSE,
             values |-> [i \in DOMAIN tasks |-> tasks[Len(tasks) + 1 - i].value]]

\* asyncio.gather(*tasks) without return_exceptions: the results in argument
\* order, or the exception of a task that raised.
asyncio_gather(tasks) ==
    IF \E i \in DOMAIN tasks : tasks[i].raised
       THEN [raised |-> TRUE, values |-> <<>>]
       ELSE [raised |-> FALSE, values |-> [i \in DOMAIN tasks |-> tasks[i].value]]

VerificationEvidence(id, kanoon, news, fc, acad) ==
    [claim_id |-> id, indian_kanoon_results |-> kanoon, news_results |-> news,
     google_fact_checks |-> fc, academic_results |-> acad]

gather_evidence_for_claim(claim, configured, res) ==
    LET g == asyncio_gather(Tasks(claim, configured, res))
    IN  IF g.raised
           THEN Threw
           ELSE Returned(VerificationEvidence(claim.sentence_id, g.values[1],
                                              g.values[2], g.values[3], g.values[4]))

\* The sources whose search() the gathering of a claim invokes.
Invokes(src, claim, configured) ==
    /\ Routed(src, Lower(claim.claim_type))
    /\ src = "academic" => configured

\* A LegalClaim; the text of the i-th sentence of the document is written i.
LegalClaim(id, text, type, query) ==
    [sentence_id |-> id, sentence_text |-> text, claim_type |-> type,
     search_query |-> query]

----------------------------------------------------------------------------
\* SpecGather: one call of _gather_evidence_for_claim, made as verify_legal_blog
\* makes it (every configured client's session open).

InitGather ==
    /\ pc = "gather"
    /\ academic_client \in BOOLEAN
    /\ session = [s \in Sources |-> s # "academic" \/ academic_client]
    /\ extracted_claims \in
         {<<LegalClaim(1, 1, t, q)>> : t \in ClaimTypes, q \in {0, 1}}
    /\ reply = [s \in Sources |-> "hits"]
    /\ unit = [s \in Sources |-> "pending"]
    /\ response = [s \in Sources |-> NotCalled]
    /\ gathered = {}
    /\ task_result = <<>>
    /\ searched = {}
    /\ search_calls = NoCalls
    /\ evidence_results = <<>>
    /\ context_data = <<>>
    /\ extracted_count = 1
    /\ llm_calls = [extract |-> 0, judge |-> 0]
    /\ extract_kind = "none"
    /\ judge_out = <<>>
    /\ report = <<>>
    /\ run_pc = <<>>
    /\ session_of = <<>>
    /\ live_sessions = {}
    /\ run_failed = {}
    /\ oracle_out = <<>>

\* One slot of asyncio.gather completes: a fetch_* whose search returned or
\* raised, or a sleep(0).
UnitReturn(src) ==
    /\ pc = "gather"
    /\ unit[src] = "pending"
    /\ unit' = [unit EXCEPT ![src] = "done"]
    /\ IF Invokes(src, extracted_claims[1], academic_client)
          THEN /\ \E http \in Responses(src, extracted_claims[1].search_query) :
                    LET res == ClientSearch(src, extracted_claims[1].search_query,
                                            session[src], http)
                    IN  /\ response' = [response EXCEPT ![src] = res]
                        /\ search_calls' = [search_calls EXCEPT ![<<1, src>>] =
                                                @ + SearchAttempts(res)]
               /\ searched' = searched \cup {<<1, src>>}
          ELSE UNCHANGED <<response, searched, search_calls>>
    /\ UNCHANGED aside_vars
    /\ UNCHANGED <<pc, academic_client, session, extracted_claims, reply, gathered,
                   task_result, evidence_results, context_data, extracted_count,
                   llm_calls, extract_kind, judge_out, report>>

\* All four slots are done: the bundle is assembled and returned.
GatherReturn ==
    /\ pc = "gather"
    /\ \A s \in Sources : unit[s] = "done"
    /\ LET g == gather_evidence_for_claim(extracted_claims[1], academic_client, response)
       IN  IF g.raised
              THEN /\ pc' = "gather_raised"
                   /\ UNCHANGED evidence_results
              ELSE /\ pc' = "gather_returned"
                   /\ evidence_results' = <<g.value>>
    /\ UNCHANGED <<search_calls, aside_vars>>
    /\ UNCHANGED <<academic_client, session, extracted_claims, reply, unit, response,
                   gathered, task_result, searched, context_data, extracted_count,
                   llm_calls, extract_kind, judge_out, report>>

NextGather ==
    \/ \E src \in Sources : UnitReturn(src)
    \/ GatherReturn

SpecGather == InitGather /\ [][NextGather]_vars

----------------------------------------------------------------------------
\* SpecSilent: one call of _gather_evidence_for_claim in which a service may
\* accept a request and never answer it ("silent").

\* The keyword arguments a fetch_* passes to search() besides the query.
SearchKwargs(src) ==
    CASE src = "news" -> {"num_results"}
      [] src = "academic" -> {"limit"}
      [] OTHER -> {}

InitSilent ==
    /\ pc = "gather"
    /\ academic_client \in BOOLEAN
    /\ session = [s \in Sources |-> s # "academic" \/ academic_client]
    /\ extracted_claims \in
         {<<LegalClaim(1, 1, t, q)>> : t \in ClaimTypes, q \in {0, 1}}
    /\ reply \in [Sources -> {"hits", "silent"}]
    /\ unit = [s \in Sources |-> "pending"]
    /\ response = [s \in Sources |-> NotCalled]
    /\ gathered = {}
    /\ task_result = <<>>
    /\ searched = {}
    /\ search_calls = NoCalls
    /\ evidence_results = <<>>
    /\ context_data = <<>>
    /\ extracted_count = 1
    /\ llm_calls = [extract |-> 0, judge |-> 0]
    /\ extract_kind = "none"
    /\ judge_out = <<>>
    /\ report = <<>>
    /\ run_pc = <<>>
    /\ session_of = <<>>
    /\ live_sessions = {}
    /\ run_failed = {}
    /\ oracle_out = <<>>

\* The request of the unit's search() is waiting for a service that never
\* answers: the search is made, and raises nothing before the request is sent.
Waiting(src) ==
    /\ Invokes(src, extracted_claims[1], academic_client)
    /\ reply[src] = "silent"
    /\ ClientSearch(src, extracted_claims[1].search_query, session[src], NotCalled)
          = NotCalled

\* A slot completes whose search, if it makes one, is answered or raises
\* before the request.
AnsweredReturn(src) ==
    /\ ~Waiting(src)
    /\ UnitReturn(src)

\* session.get(...) is called without a timeout, on a ClientSession created
\* without one: a waiting request ends only if the HTTP library's own default
\* ends it, by raising.
LibraryTimeout(src) ==
    /\ pc = "gather"
    /\ unit[src] = "pending"
    /\ Waiting(src)
    /\ unit' = [unit EXCEPT ![src] = "done"]
    /\ response' = [response EXCEPT ![src] = Raised]
    /\ search_calls' = [search_calls EXCEPT ![<<1, src>>] = @ + SearchAttempts(Raised)]
    /\ searched' = searched \cup {<<1, src>>}
    /\ UNCHANGED aside_vars
    /\ UNCHANGED <<pc, academic_client, session, extracted_claims, reply, gathered,
                   task_result, evidence_results, context_data, extracted_count,
                   llm_calls, extract_kind, judge_out, report>>

\* The steps the code and the answering services take.
CodeSteps ==
    \/ \E src \in Sources : AnsweredReturn(src)
    \/ GatherReturn

NextSilent ==
    \/ CodeSteps
    \/ \E src \in Sources : LibraryTimeout(src)

\* Fair scheduling of the code's own steps; nothing in the code makes a
\* waiting request end.
SpecSilent == InitSilent /\ [][NextSilent]_vars /\ WF_vars(CodeSteps)


----------------------------------------------------------------------------
\* Properties of _gather_evidence_for_claim (checked under SpecGather).

\* The routing table of the design, by row.
RoutingTable(category) ==
    CASE category \in {"case_law", "statute"} -> {"indian_kanoon", "news", "academic"}
      [] category = "legal_fact" -> {"indian_kanoon", "news", "fact_check"}
      [] category \in {"date_fact", "general_fact"} -> {"news", "fact_check"}
      [] OTHER -> {"news"}

\* The field of a bundle that holds a source's results.
Field(ev, src) ==
    CASE src = "indian_kanoon" -> ev.indian_kanoon_results
      [] src = "news" -> ev.news_results
      [] src = "fact_check" -> ev.google_fact_checks
      [] src = "academic" -> ev.academic_results

TheClaim == extracted_claims[1]
SearchedFor(i) == {s \in Sources : <<i, s>> \in searched}
SearchFailed(res) == res.kind \in {"raise", "nondict"}
ReturnedCollection(src, res) ==
    IF ResultKey(src) \in DOMAIN res.body THEN res.body[ResultKey(src)] ELSE PyList(<<>>)

\* C1 as stated: the sources searched for a claim are exactly the row of the
\* routing table for the claim's category, unknown categories giving {news}.
C1_RoutingAsStated ==
    pc = "gather_returned" =>
        SearchedFor(1) = RoutingTable(Lower(TheClaim.claim_type))

\* C1 (amended): the sources searched for a claim are the row of the routing
\* table for the claim's lower-cased category, without the academic index
\* when the service was built without an academic client.
C1_Routing ==
    pc = "gather_returned" =>
        SearchedFor(1) =
            RoutingTable(Lower(TheClaim.claim_type)) \
                (IF academic_client THEN {} ELSE {"academic"})

C1_Witness ==
    /\ pc = "gather_returned"
    /\ TheClaim.claim_type = "statute"
    /\ ~academic_client
    /\ SearchedFor(1) = {"indian_kanoon", "news"}

\* C3: gathering never raises and returns a bundle whose four fields are each
\* a sequence of records, however the source calls fail or answer.
C3_BundleValid ==
    /\ pc # "gather_raised"
    /\ pc = "gather_returned" =>
          \A s \in Sources : Field(evidence_results[1], s).py = "list"

\* C4: gathering returns no error; the field of every searched source whose
\* call failed is empty and the field of every other searched source is the
\* collection that source returned; a routed source without a client gives an
\* empty field; when every call failed all four fields are empty.
C4_Isolation ==
    /\ pc # "gather_raised"
    /\ pc = "gather_returned" =>
          /\ \A s \in Sources :
                Routed(s, Lower(TheClaim.claim_type)) =>
                    Field(evidence_results[1], s) =
                        IF ~Invokes(s, TheClaim, academic_client) THEN PyList(<<>>)
                        ELSE IF SearchFailed(response[s]) THEN PyList(<<>>)
                        ELSE ReturnedCollection(s, response[s])
          /\ (\A s \in SearchedFor(1) : SearchFailed(response[s])) =>
                \A s \in Sources : Field(evidence_results[1], s) = PyList(<<>>)

C4_Witness ==
    /\ pc = "gather_returned"
    /\ TheClaim.claim_type = "legal_fact"
    /\ response["indian_kanoon"].kind = "raise"
    /\ response["fact_check"].kind = "nondict"
    /\ evidence_results[1].indian_kanoon_results = PyList(<<>>)
    /\ evidence_results[1].google_fact_checks = PyList(<<>>)
    /\ evidence_results[1].news_results = PyList(<<Hit("news", 1, 1)>>)

\* C8: a source the routing table does not select for the claim's category is
\* never searched for the claim and its field of the bundle is empty.
C8_Unrouted ==
    \A s \in Sources \ RoutingTable(Lower(TheClaim.claim_type)) :
        /\ <<1, s>> \notin searched
        /\ response[s] = NotCalled
        /\ pc = "gather_returned" => Field(evidence_results[1], s) = PyList(<<>>)

C8_Witness ==
    /\ pc = "gather_returned"
    /\ TheClaim.claim_type = "date_fact"
    /\ academic_client
    /\ Len(evidence_results[1].news_results.items) > 0
    /\ Len(evidence_results[1].google_fact_checks.items) > 0
    /\ evidence_results[1].indian_kanoon_results = PyList(<<>>)
    /\ evidence_results[1].academic_results = PyList(<<>>)


----------------------------------------------------------------------------
\* LegalClaimExtractor.extract_claims

\* An optional field of a JSON object is the empty set (the key is missing)
\* or the set holding its value; d.get(key, default):
GetOpt(field, default) == IF field = {} THEN default ELSE CHOOSE v \in field : TRUE

\* The value of an item's field, with its JSON type; null carries the value
\* of the field's kind so that values of one field compare.
JsonInt(v) == [t |-> "int", v |-> v]
JsonStr(v) == [t |-> "str", v |-> v]
JsonNull(v) == [t |-> "null", v |-> v]

\* What the extraction oracle may give: an exception, text that is not JSON,
\* JSON that is not an object, or an object with a claims list. The i-th item
\* carries sentence_id i and the query derived for sentence i.
ClaimItems(n) ==
    {[i \in 1..n |-> [sentence_id |-> {JsonInt(i)}, sentence_text |-> {JsonStr(i)},
                       claim_type |-> {JsonStr(t[i])},
                       search_query |-> {JsonStr(i)}]] :
        t \in [1..n -> ClaimTypes]}

ExtractionOutputs ==
    {[kind |-> k, claims |-> <<>>] : k \in {"raise", "unparsable", "nondict"}} \cup
    {[kind |-> "json", claims |-> c] : c \in UNION {ClaimItems(n) : n \in 0..MaxClaims}}

\* The keyword arguments the loop passes to LegalClaim for one item, each with
\* the default of its item.get (the text 0 is the empty string).
ClaimArgs(item) ==
    [sentence_id |-> GetOpt(item.sentence_id, JsonInt(0)),
     sentence_text |-> GetOpt(item.sentence_text, JsonStr(0)),
     claim_type |-> GetOpt(item.claim_type, JsonStr("legal_fact")),
     search_query |-> GetOpt(item.search_query, GetOpt(item.sentence_text, JsonNull(0)))]

\* LegalClaim(...) raises a ValidationError: sentence_id is not an int, or
\* sentence_text, claim_type or search_query is not a str.
ClaimRaises(args) ==
    \/ args.sentence_id.t # "int"
    \/ args.sentence_text.t # "str"
    \/ args.claim_type.t # "str"
    \/ args.search_query.t # "str"

NewClaim(args) ==
    LegalClaim(args.sentence_id.v, args.sentence_text.v, args.claim_type.v,
               args.search_query.v)

\* The loop over claims_list, run to its end.
ClaimsOf(items) == [i \in 1..Len(items) |-> NewClaim(ClaimArgs(items[i]))]

\* extract_claims with an except branch that returns a placeholder claim.
extract_claims_placeholder(out) ==
    IF \/ out.kind # "json"
       \/ \E i \in 1..Len(out.claims) : ClaimRaises(ClaimArgs(out.claims[i]))
       THEN <<LegalClaim(0, 0, "legal_fact", 0)>>
       ELSE ClaimsOf(out.claims)

\* extract_claims with the try inside the loop: an item that raises is skipped.
extract_claims_skipping(out) ==
    IF out.kind # "json" THEN <<>>
    ELSE ClaimsOf(SelectSeq(out.claims, LAMBDA item : ~ClaimRaises(ClaimArgs(item))))

extract_claims(out) ==
    IF \/ out.kind # "json"
       \/ \E i \in 1..Len(out.claims) : ClaimRaises(ClaimArgs(out.claims[i]))
       THEN <<>>                                     \* except Exception: return []
       ELSE ClaimsOf(out.claims)

----------------------------------------------------------------------------
\* LegalFactCheckService._generate_empty_report, _generate_final_verdict_llm

\* A LegalVerificationReport (blog_id and timestamp left out).
LegalVerificationReport(total, verifiable, verified, accuracy, breakdown, checks, recs) ==
    [total_claims_extracted |-> total, verifiable_claims |-> verifiable,
     verified_claims |-> verified, accuracy_score |-> accuracy,
     claims_breakdown |-> breakdown, fact_checks |-> checks, recommendations |-> recs]

\* _generate_empty_report without its recommendation.
generate_empty_report_silent(count) ==
    LegalVerificationReport(count, count, 0, 0, EmptyDict, <<>>, <<>>)

generate_empty_report(count) ==
    LegalVerificationReport(count, count, 0, 0, EmptyDict, <<>>, <<"Analysis failed.">>)

\* The slice of the legal-database results without its cap.
Head3_uncapped(s) == s

\* s[:3]
Head3(s) == SubSeq(s, 1, IF Len(s) < 3 THEN Len(s) ELSE 3)

\* The comprehension over one field of a bundle raises when the field is not a
\* list or when a record read is not a JSON object.
ViewRaises(field, items) ==
    \/ field.py # "list"
    \/ \E j \in DOMAIN items : items[j].shape # "dict"

\* The compressed record shown to the oracle.
View(x) == [src |-> x.src, query |-> x.query, rank |-> x.rank]
Views(items) == [j \in DOMAIN items |-> View(items[j])]

SimplifiedRaises(ev) ==
    \/ ViewRaises(ev.indian_kanoon_results, Head3(ev.indian_kanoon_results.items))
    \/ ViewRaises(ev.google_fact_checks, ev.google_fact_checks.items)
    \/ ViewRaises(ev.news_results, ev.news_results.items)
    \/ ViewRaises(ev.academic_results, ev.academic_results.items)

simplified_evidence(ev) ==
    [indian_kanoon |-> Views(Head3(ev.indian_kanoon_results.items)),
     fact_check_db |-> Views(ev.google_fact_checks.items),
     web_search |-> Views(ev.news_results.items),
     academic |-> Views(ev.academic_results.items)]

Min(a, b) == IF a < b THEN a ELSE b

\* The loop over zip(claims, evidence_list) that builds context_data; it is
\* outside the try block, so what it raises leaves the method.
build_context(claims, evidence_list) ==
    LET n == Min(Len(claims), Len(evidence_list))
    IN  IF \E i \in 1..n : SimplifiedRaises(evidence_list[i])
           THEN [raised |-> TRUE, value |-> <<>>]
           ELSE [raised |-> FALSE,
                 value |-> [i \in 1..n |->
                    [sentence_id |-> claims[i].sentence_id,
                     original_sentence |-> claims[i].sentence_text,
                     claim_type |-> claims[i].claim_type,
                     evidence |-> simplified_evidence(evidence_list[i])]]]

\* JSON null where a string is expected.
Null == "<null>"

\* str.lower() on the verdict strings.
LowerVerdict(v) == IF v = "Accurate" THEN "accurate" ELSE v

\* The body of the loop over fact_checks raises (AttributeError on
\* None.lower(), or pydantic's ValidationError on a null where str is required).
ItemRaises(item) ==
    \/ GetOpt(item.verdict, "unverifiable") = Null
    \/ GetOpt(item.claim, "") = Null
    \/ GetOpt(item.source_type, "secondary") = Null
    \/ GetOpt(item.legal_authority_level, "secondary") = Null

\* item.get("source", "") in place of item.get("source") or "Unknown"
SourceOrEmpty(field) ==
    IF field = {} THEN "" ELSE CHOOSE v \in field : TRUE

\* item.get("source") or "Unknown"
SourceOrUnknown(field) ==
    IF field = {} \/ field = {Null} \/ field = {""} THEN "Unknown"
    ELSE CHOOSE v \in field : TRUE

\* item.get("sentence", "") or item.get("claim", "")
SentenceOrClaim(item) ==
    IF item.sentence = {} \/ item.sentence = {Null} \/ item.sentence = {""}
       THEN GetOpt(item.claim, "")
       ELSE CHOOSE v \in item.sentence : TRUE

\* A LegalFactCheck (checked_on and citation_provided left out).
LegalFactCheck(item) ==
    [sentence_id |-> GetOpt(item.sentence_id, 0),
     sentence |-> SentenceOrClaim(item),
     claim |-> GetOpt(item.claim, ""),
     verdict |-> LowerVerdict(GetOpt(item.verdict, "unverifiable")),
     source |-> SourceOrUnknown(item.source),
     source_type |-> GetOpt(item.source_type, "secondary"),
     legal_authority_level |-> GetOpt(item.legal_authority_level, "secondary"),
     corrected_sentence |-> GetOpt(item.corrected_sentence, Null)]

\* The try block with the except branch passing 0 instead of len(claims).
parse_verdict_zero_count(n, out) ==
    LET checks == GetOpt(out.fact_checks, PyList(<<>>))
    IN  IF out.kind # "json" THEN generate_empty_report(0)
        ELSE IF checks.py # "list" THEN generate_empty_report(0)
        ELSE IF \E j \in DOMAIN checks.items : ItemRaises(checks.items[j])
                THEN generate_empty_report(0)
        ELSE LegalVerificationReport(
                 GetOpt(out.total_claims_extracted, n),
                 GetOpt(out.verifiable_claims, n),
                 GetOpt(out.verified_claims, Len(checks.items)),
                 GetOpt(out.accuracy_score, 0),
                 GetOpt(out.claims_breakdown, EmptyDict),
                 [j \in DOMAIN checks.items |-> LegalFactCheck(checks.items[j])],
                 <<>>)

\* The try block with verified_claims falling back to len(claims).
parse_verdict_verified_is_count(n, out) ==
    LET checks == GetOpt(out.fact_checks, PyList(<<>>))
    IN  IF out.kind # "json" THEN generate_empty_report(n)
        ELSE IF checks.py # "list" THEN generate_empty_report(n)
        ELSE IF \E j \in DOMAIN checks.items : ItemRaises(checks.items[j])
                THEN generate_empty_report(n)
        ELSE LegalVerificationReport(
                 GetOpt(out.total_claims_extracted, n),
                 GetOpt(out.verifiable_claims, n),
                 GetOpt(out.verified_claims, n),
                 GetOpt(out.accuracy_score, 0),
                 GetOpt(out.claims_breakdown, EmptyDict),
                 [j \in DOMAIN checks.items |-> LegalFactCheck(checks.items[j])],
                 <<>>)

\* The try block of _generate_final_verdict_llm on the oracle's output out,
\* for n extracted claims.
parse_verdict(n, out) ==
    LET checks == GetOpt(out.fact_checks, PyList(<<>>))
    IN  IF out.kind # "json" THEN generate_empty_report(n)
        ELSE IF checks.py # "list" THEN generate_empty_report(n)
        ELSE IF \E j \in DOMAIN checks.items : ItemRaises(checks.items[j])
                THEN generate_empty_report(n)
        ELSE LET fact_checks_objs ==
                     [j \in DOMAIN checks.items |-> LegalFactCheck(checks.items[j])]
             IN  LegalVerificationReport(
                     GetOpt(out.total_claims_extracted, n),
                     GetOpt(out.verifiable_claims, n),
                     GetOpt(out.verified_claims, Len(fact_checks_objs)),
                     GetOpt(out.accuracy_score, 0),
                     GetOpt(out.claims_breakdown, EmptyDict),
                     fact_checks_objs,
                     <<>>)

\* What the adjudication oracle may give for n claims.
JudgeOutput(kind, total, verifiable, verified, accuracy, breakdown, checks) ==
    [kind |-> kind, total_claims_extracted |-> total, verifiable_claims |-> verifiable,
     verified_claims |-> verified, accuracy_score |-> accuracy,
     claims_breakdown |-> breakdown, fact_checks |-> checks]

FactCheckItem(id, verdict) ==
    [sentence_id |-> {id}, sentence |-> {}, claim |-> {}, verdict |-> verdict,
     source |-> {}, source_type |-> {}, legal_authority_level |-> {},
     corrected_sentence |-> {}]

\* The sequences without repetition over 1..n: the claims the oracle chose to
\* report, in the order it chose.
RECURSIVE Arrangements(_)
Arrangements(S) ==
    {<<>>} \cup UNION {{<<x>> \o a : a \in Arrangements(S \ {x})} : x \in S}

JudgeItems(n) ==
    {[j \in DOMAIN a |-> FactCheckItem(a[j], {"accurate"})] : a \in Arrangements(1..n)}

JudgeOutputs(n) ==
    {JudgeOutput(k, {}, {}, {}, {}, {}, {}) : k \in {"raise", "unparsable", "nondict"}}
    \cup {JudgeOutput("json", {}, {}, {}, {}, {}, {PyNone}),
          JudgeOutput("json", {}, {}, {}, {}, {}, {PyList(<<FactCheckItem(1, {Null})>>)})}
    \cup {JudgeOutput("json", {}, {}, {}, {}, {}, {PyList(items)}) : items \in JudgeItems(n)}
    \cup {JudgeOutput("json", {0}, {}, {}, {}, {}, {PyList(items)}) : items \in JudgeItems(n)}
    \cup {JudgeOutput("json", {n}, {n}, {Len(items)}, {100}, {EmptyDict}, {PyList(items)}) :
             items \in JudgeItems(n)}

----------------------------------------------------------------------------
\* Spec: one run of verify_legal_blog on a constructed service.

\* How a search service answers during the run.
Behaviours == {"raise", "null", "hits"}

Respond(src, query, behaviour) ==
    CASE behaviour = "raise" -> Raised
      [] behaviour = "null" -> Json([k \in {ResultKey(src)} |-> PyNone])
      [] behaviour = "hits" ->
            Json([k \in {ResultKey(src)} |->
                    PyList([j \in 1..MaxRecords |-> Hit(src, query, j)])])

NoSessions == [s \in Sources |-> FALSE]

\* The enter_async_context calls without the one of indian_kanoon_client.
EnterOrder_without_kanoon ==
    <<"fact_check", "news">> \o (IF academic_client THEN <<"academic">> ELSE <<>>)

\* The clients verify_legal_blog enters, in the order it enters them.
EnterOrder ==
    <<"fact_check", "news", "indian_kanoon">> \o
        (IF academic_client THEN <<"academic">> ELSE <<>>)

Init ==
    /\ pc = "extract"
    /\ academic_client \in BOOLEAN
    /\ session = NoSessions
    /\ extracted_claims = <<>>
    /\ reply \in [Sources -> Behaviours]
    /\ unit = [s \in Sources |-> "done"]
    /\ response = [s \in Sources |-> NotCalled]
    /\ gathered = {}
    /\ task_result = <<>>
    /\ searched = {}
    /\ search_calls = NoCalls
    /\ evidence_results = <<>>
    /\ context_data = <<>>
    /\ extracted_count = 0
    /\ llm_calls = [extract |-> 0, judge |-> 0]
    /\ extract_kind = "none"
    /\ judge_out = <<>>
    /\ report = <<>>
    /\ run_pc = <<>>
    /\ session_of = <<>>
    /\ live_sessions = {}
    /\ run_failed = {}
    /\ oracle_out = <<>>

\* STEP 1: extract_claims, and the early return when it gives no claims.
Extract ==
    /\ pc = "extract"
    /\ \E out \in ExtractionOutputs :
          LET claims == extract_claims(out)
          IN  /\ extracted_claims' = claims
              /\ extracted_count' = Len(claims)
              /\ extract_kind' = out.kind
              /\ IF Len(claims) = 0
                    THEN /\ report' = <<generate_empty_report(0)>>
                         /\ pc' = "done"
                    ELSE /\ report' = report
                         /\ pc' = "enter"
    /\ llm_calls' = [llm_calls EXCEPT !.extract = @ + 1]
    /\ UNCHANGED <<search_calls, aside_vars>>
    /\ UNCHANGED <<academic_client, session, reply, unit, response, gathered,
                   task_result, searched, evidence_results, context_data, judge_out>>

\* The enter_async_context calls: each __aenter__ opens a session. When
\* opening the k-th session raises, the stack closes the sessions entered
\* before it and the exception leaves verify_legal_blog.
EnterClients ==
    /\ pc = "enter"
    /\ \E failAt \in 0..Len(EnterOrder) :
          IF failAt = 0
             THEN /\ session' = [s \in Sources |->
                                    \E k \in 1..Len(EnterOrder) : EnterOrder[k] = s]
                  /\ pc' = "gather"
                  /\ task_result' = [i \in 1..Len(extracted_claims) |-> Threw]
             ELSE /\ session' = NoSessions
                  /\ pc' = "raised"
                  /\ task_result' = task_result
    /\ UNCHANGED <<search_calls, aside_vars>>
    /\ UNCHANGED <<academic_client, extracted_claims, reply, unit, response, gathered,
                   searched, evidence_results, context_data, extracted_count,
                   llm_calls, extract_kind, judge_out, report>>

\* What client.search() gives the gathering task of claim c during this run.
SearchResults(c) ==
    [s \in Sources |->
        IF Invokes(s, c, academic_client)
           THEN ClientSearch(s, c.search_query, session[s],
                             Respond(s, c.search_query, reply[s]))
           ELSE NotCalled]

\* The gathering task of the i-th claim runs to completion.
GatherClaim(i) ==
    /\ pc = "gather"
    /\ i \in 1..Len(extracted_claims)
    /\ i \notin gathered
    /\ LET c == extracted_claims[i]
           g == gather_evidence_for_claim(c, academic_client, SearchResults(c))
       IN  /\ task_result' = [task_result EXCEPT ![i] = g]
           /\ searched' = searched \cup
                 {<<i, s>> : s \in {x \in Sources : Invokes(x, c, academic_client)}}
           /\ search_calls' =
                 [k \in DOMAIN search_calls |->
                    IF k[1] = i /\ Invokes(k[2], c, academic_client)
                       THEN search_calls[k] + SearchAttempts(SearchResults(c)[k[2]])
                       ELSE search_calls[k]]
    /\ gathered' = gathered \cup {i}
    /\ UNCHANGED aside_vars
    /\ UNCHANGED <<pc, academic_client, session, extracted_claims, reply, unit, response,
                   evidence_results, context_data, extracted_count, llm_calls,
                   extract_kind, judge_out, report>>

\* asyncio.gather(*tasks) returns and the async with block is left: every
\* entered client's __aexit__ closes its session.
GatherAll ==
    /\ pc = "gather"
    /\ gathered = 1..Len(extracted_claims)
    /\ LET r == asyncio_gather(task_result)
       IN  IF r.raised
              THEN /\ pc' = "raised"
                   /\ UNCHANGED evidence_results
              ELSE /\ pc' = "judge"
                   /\ evidence_results' = r.values
    /\ session' = NoSessions
    /\ UNCHANGED <<search_calls, aside_vars>>
    /\ UNCHANGED <<academic_client, extracted_claims, reply, unit, response, gathered,
                   task_result, searched, context_data, extracted_count, llm_calls,
                   extract_kind, judge_out, report>>

\* STEP 3, up to the oracle call: the payload is built and sent.
BuildContext ==
    /\ pc = "judge"
    /\ LET b == build_context(extracted_claims, evidence_results)
       IN  IF b.raised
              THEN /\ pc' = "raised"
                   /\ UNCHANGED <<context_data, llm_calls>>
              ELSE /\ pc' = "judging"
                   /\ context_data' = b.value
                   /\ llm_calls' = [llm_calls EXCEPT !.judge = @ + 1]
    /\ UNCHANGED <<search_calls, aside_vars>>
    /\ UNCHANGED <<academic_client, session, extracted_claims, reply, unit, response,
                   gathered, task_result, searched, evidence_results, extracted_count,
                   extract_kind, judge_out, report>>

\* STEP 3, from the oracle's answer on: the report is built and returned; the
\* locals of the run are gone.
JudgeReturn ==
    /\ pc = "judging"
    /\ \E out \in JudgeOutputs(Len(extracted_claims)) :
          /\ report' = <<parse_verdict(Len(extracted_claims), out)>>
          /\ judge_out' = <<out>>
    /\ pc' = "done"
    /\ extracted_claims' = <<>>
    /\ evidence_results' = <<>>
    /\ context_data' = <<>>
    /\ task_result' = <<>>
    /\ gathered' = {}
    /\ UNCHANGED <<search_calls, aside_vars>>
    /\ UNCHANGED <<academic_client, session, reply, unit, response, searched,
                   extracted_count, llm_calls, extract_kind>>

Next ==
    \/ Extract
    \/ EnterClients
    \/ \E i \in 1..MaxClaims : GatherClaim(i)
    \/ GatherAll
    \/ BuildContext
    \/ JudgeReturn

Spec == Init /\ [][Next]_vars

\* A run in which every external call returns or raises and the event loop
\* runs every task that can run: a step that stays possible is taken.
FairSpec == Spec /\ WF_vars(Next)

----------------------------------------------------------------------------
\* SpecExtract: one call of extract_claims, over oracle outputs whose items
\* may lack a field or carry null in it.

\* A claims list of n items: item i, when it has them, carries sentence_id i,
\* the text i and the query MaxClaims + i.
OracleItems(n, id, text, type, query) ==
    [i \in 1..n |->
        [sentence_id |-> CASE id[i] = "missing" -> {}
                           [] id[i] = "null" -> {JsonNull(0)}
                           [] id[i] = "given" -> {JsonInt(i)},
         sentence_text |-> IF text[i] = "missing" THEN {} ELSE {JsonStr(i)},
         claim_type |-> CASE type[i] = "missing" -> {}
                          [] type[i] = "null" -> {JsonNull("")}
                          [] type[i] = "given" -> {JsonStr("statute")},
         search_query |-> IF query[i] = "missing" THEN {}
                          ELSE {JsonStr(MaxClaims + i)}]]

\* The oracle raises, gives text that is not JSON, JSON that is not an
\* object, or an object with a claims list of up to MaxClaims items.
OracleGives(out) ==
    \/ out \in {[kind |-> k, claims |-> <<>>] : k \in {"raise", "unparsable", "nondict"}}
    \/ \E n \in 0..MaxClaims :
          \E id \in [1..n -> {"missing", "null", "given"}],
             text \in [1..n -> {"missing", "given"}],
             type \in [1..n -> {"missing", "null", "given"}],
             query \in [1..n -> {"missing", "given"}] :
                out = [kind |-> "json", claims |-> OracleItems(n, id, text, type, query)]

InitExtract ==
    /\ pc = "extract"
    /\ OracleGives(oracle_out)
    /\ academic_client = FALSE
    /\ session = NoSessions
    /\ extracted_claims = <<>>
    /\ reply = [s \in Sources |-> "hits"]
    /\ unit = [s \in Sources |-> "done"]
    /\ response = [s \in Sources |-> NotCalled]
    /\ gathered = {}
    /\ task_result = <<>>
    /\ searched = {}
    /\ search_calls = NoCalls
    /\ evidence_results = <<>>
    /\ context_data = <<>>
    /\ extracted_count = 0
    /\ llm_calls = [extract |-> 0, judge |-> 0]
    /\ extract_kind = "none"
    /\ judge_out = <<>>
    /\ report = <<>>
    /\ run_pc = <<>>
    /\ session_of = <<>>
    /\ live_sessions = {}
    /\ run_failed = {}

\* extract_claims returns.
ExtractReturn ==
    /\ pc = "extract"
    /\ extracted_claims' = extract_claims(oracle_out)
    /\ extracted_count' = Len(extract_claims(oracle_out))
    /\ extract_kind' = oracle_out.kind
    /\ llm_calls' = [llm_calls EXCEPT !.extract = @ + 1]
    /\ pc' = "extracted"
    /\ UNCHANGED <<academic_client, session, reply, unit, response, gathered,
                   task_result, searched, search_calls, evidence_results,
                   context_data, judge_out, report, run_pc, session_of,
                   live_sessions, run_failed, oracle_out>>

NextExtract == ExtractReturn

SpecExtract == InitExtract /\ [][NextExtract]_vars

----------------------------------------------------------------------------
\* SpecOverlap: two runs of verify_legal_blog on one service, each past its
\* extraction with one legal_fact claim, overlapping in any way the event
\* loop allows. The clients, and so their session fields, are the service's.

Runs == {1, 2}

\* The variables of one run taken alone, which the overlapping runs leave as
\* they are.
single_run_vars ==
    <<pc, academic_client, session, extracted_claims, reply, unit, response,
      gathered, task_result, searched, evidence_results, context_data,
      extracted_count, llm_calls, extract_kind, judge_out, report, search_calls,
      oracle_out>>

\* The clients a run enters.
Entered == {EnterOrder[k] : k \in 1..Len(EnterOrder)}

InitOverlap ==
    /\ pc = "overlap"
    /\ academic_client = FALSE
    /\ session = NoSessions
    /\ extracted_claims = <<LegalClaim(1, 1, "legal_fact", 1)>>
    /\ reply = [s \in Sources |-> "hits"]
    /\ unit = [s \in Sources |-> "done"]
    /\ response = [s \in Sources |-> NotCalled]
    /\ gathered = {}
    /\ task_result = <<>>
    /\ searched = {}
    /\ search_calls = NoCalls
    /\ evidence_results = <<>>
    /\ context_data = <<>>
    /\ extracted_count = 1
    /\ llm_calls = [extract |-> 0, judge |-> 0]
    /\ extract_kind = "json"
    /\ judge_out = <<>>
    /\ report = <<>>
    /\ run_pc = [r \in Runs |->
                    [at |-> "start",
                     unit |-> [s \in Sources |->
                                 IF Invokes(s, extracted_claims[1], academic_client)
                                    THEN "pending" ELSE "done"],
                     on |-> [s \in Sources |-> 0]]]
    /\ session_of = [s \in Sources |-> 0]
    /\ live_sessions = {}
    /\ run_failed = {}
    /\ oracle_out = <<>>

\* The enter_async_context calls of run r: no __aenter__ suspends, so they run
\* in one piece; each stores a new ClientSession in the client's session
\* field, whatever the field held.
EnterRun(r) ==
    /\ run_pc[r].at = "start"
    /\ run_pc' = [run_pc EXCEPT ![r].at = "gather"]
    /\ session_of' = [s \in Sources |-> IF s \in Entered THEN r ELSE session_of[s]]
    /\ live_sessions' = live_sessions \cup {<<s, r>> : s \in Entered}
    /\ UNCHANGED <<run_failed, single_run_vars>>

\* A fetch_* of run r calls search(): _make_request raises when the client's
\* session field is None, and sends the request on the session it holds
\* otherwise.
SendSearch(r, s) ==
    /\ run_pc[r].at = "gather"
    /\ run_pc[r].unit[s] = "pending"
    /\ IF session_of[s] = 0
          THEN /\ run_pc' = [run_pc EXCEPT ![r].unit[s] = "done"]
               /\ run_failed' = run_failed \cup {<<r, s>>}
          ELSE /\ run_pc' = [run_pc EXCEPT ![r].unit[s] = "sent",
                                           ![r].on[s] = session_of[s]]
               /\ UNCHANGED run_failed
    /\ UNCHANGED <<session_of, live_sessions, single_run_vars>>

\* The request completes: with the response, or with an error when the
\* session it was sent on has been closed.
ReceiveSearch(r, s) ==
    /\ run_pc[r].at = "gather"
    /\ run_pc[r].unit[s] = "sent"
    /\ run_pc' = [run_pc EXCEPT ![r].unit[s] = "done"]
    /\ run_failed' = IF <<s, run_pc[r].on[s]>> \in live_sessions
                        THEN run_failed
                        ELSE run_failed \cup {<<r, s>>}
    /\ UNCHANGED <<session_of, live_sessions, single_run_vars>>

\* asyncio.gather of run r returned and its async with block is left: each
\* entered client's __aexit__ closes the session the field holds, if any, and
\* sets the field to None.
ExitRun(r) ==
    /\ run_pc[r].at = "gather"
    /\ \A s \in Sources : run_pc[r].unit[s] = "done"
    /\ run_pc' = [run_pc EXCEPT ![r].at = "done"]
    /\ live_sessions' = live_sessions \ {<<s, session_of[s]>> : s \in Entered}
    /\ session_of' = [s \in Sources |-> IF s \in Entered THEN 0 ELSE session_of[s]]
    /\ UNCHANGED <<run_failed, single_run_vars>>

NextOverlap ==
    \/ \E r \in Runs : EnterRun(r)
    \/ \E r \in Runs, s \in Sources : SendSearch(r, s)
    \/ \E r \in Runs, s \in Sources : ReceiveSearch(r, s)
    \/ \E r \in Runs : ExitRun(r)

SpecOverlap == InitOverlap /\ [][NextOverlap]_vars

----------------------------------------------------------------------------
\* SpecJudge: one call of _generate_final_verdict_llm, made as
\* verify_legal_blog makes it after gathering.

\* The strings the oracle may write as a verdict: the three of the prompt, one
\* of them capitalised, and "partial" of the comment in models.py.
VerdictStrings == {"Accurate", "inaccurate", "unverifiable", "partial"}

\* The items the oracle may put in fact_checks: each field missing or given
\* (sentence and claim together), the source also as null or "".
FactCheckItems ==
    {[sentence_id |-> id, sentence |-> st, claim |-> st, verdict |-> v,
      source |-> so, source_type |-> ty, legal_authority_level |-> lv,
      corrected_sentence |-> co] :
        id \in {{}, {1}}, st \in {{}, {"text"}},
        v \in {{}} \cup {{x} : x \in VerdictStrings},
        so \in {{}, {Null}, {"Supreme Court"}},
        ty \in {{}, {"legal_official"}}, lv \in {{}, {"supreme_court"}},
        co \in {{}, {"corrected"}}}

\* An item with every field given, as the prompt asks for it.
CompleteItem ==
    [sentence_id |-> {2}, sentence |-> {"text"}, claim |-> {"text"},
     verdict |-> {"accurate"}, source |-> {"Supreme Court"},
     source_type |-> {"legal_official"}, legal_authority_level |-> {"supreme_court"},
     corrected_sentence |-> {}]

FactCheckLists ==
    {<<>>} \cup {<<a>> : a \in FactCheckItems}
           \cup {<<a, CompleteItem>> : a \in FactCheckItems}
           \cup {<<CompleteItem, a>> : a \in FactCheckItems}

\* What the adjudication oracle may give for n claims: a failure, an object
\* with any of the lists above and no aggregate, or an object with each
\* aggregate missing or given and a list of complete items.
JudgeReplies(n) ==
    {JudgeOutput(k, {}, {}, {}, {}, {}, {}) : k \in {"raise", "unparsable", "nondict"}}
    \cup {JudgeOutput("json", {}, {}, {}, {}, {}, {PyList(items)}) :
             items \in FactCheckLists}
    \cup {JudgeOutput("json", a, b, c, d, e, f) :
             a \in {{}, {0}}, b \in {{}, {0}}, c \in {{}, {n + 1}}, d \in {{}, {50}},
             e \in {{}, {[k \in {"statute"} |-> 1]}},
             f \in {{}, {PyList(<<>>)}, {PyList(<<CompleteItem>>)}}}

\* A result list of c records for a query, or None for c = -1.
Filled(src, query, c) ==
    IF c = -1 THEN PyNone ELSE PyList([j \in 1..c |-> Hit(src, query, j)])

\* How many records each field of a bundle can hold after the gathering of a
\* claim: none for a source that was not searched.
Shapes(claim, configured) ==
    {sh \in [Sources -> -1..MaxLegal] :
        /\ sh["indian_kanoon"] >= 0
        /\ sh["news"] <= MaxRecords
        /\ sh["fact_check"] \in 0..MaxRecords
        /\ sh["academic"] \in 0..MaxRecords
        /\ \A s \in Sources : ~Invokes(s, claim, configured) => sh[s] = 0}

Bundle(claim, sh) ==
    VerificationEvidence(claim.sentence_id,
        Filled("indian_kanoon", claim.search_query, sh["indian_kanoon"]),
        Filled("news", claim.search_query, sh["news"]),
        Filled("fact_check", claim.search_query, sh["fact_check"]),
        Filled("academic", claim.search_query, sh["academic"]))

InitJudge ==
    /\ pc = "judge"
    /\ academic_client \in BOOLEAN
    /\ session = NoSessions
    /\ \E n \in 1..MaxClaims, t \in {"legal_fact", "case_law"} :
          /\ extracted_claims = [i \in 1..n |-> LegalClaim(i, i, t, i)]
          /\ extracted_count = n
          /\ gathered = 1..n
          /\ \E sh \in Shapes(LegalClaim(1, 1, t, 1), academic_client) :
                evidence_results = [i \in 1..n |-> Bundle(LegalClaim(i, i, t, i), sh)]
    /\ task_result = [i \in 1..Len(evidence_results) |-> Returned(evidence_results[i])]
    /\ searched = {<<i, s>> \in (1..Len(extracted_claims)) \X Sources :
                      Invokes(s, extracted_claims[i], academic_client)}
    /\ search_calls = [c \in (1..MaxClaims) \X Sources |->
                          IF c \in searched THEN SearchAttempts(NotCalled) ELSE 0]
    /\ reply = [s \in Sources |-> "hits"]
    /\ unit = [s \in Sources |-> "done"]
    /\ response = [s \in Sources |-> NotCalled]
    /\ context_data = <<>>
    /\ llm_calls = [extract |-> 1, judge |-> 0]
    /\ extract_kind = "json"
    /\ judge_out = <<>>
    /\ report = <<>>
    /\ run_pc = <<>>
    /\ session_of = <<>>
    /\ live_sessions = {}
    /\ run_failed = {}
    /\ oracle_out = <<>>

\* The oracle's answer, any of JudgeReplies: the report is built and returned.
JudgeReply ==
    /\ pc = "judging"
    /\ \E out \in JudgeReplies(Len(extracted_claims)) :
          /\ report' = <<parse_verdict(Len(extracted_claims), out)>>
          /\ judge_out' = <<out>>
    /\ pc' = "done"
    /\ extracted_claims' = <<>>
    /\ evidence_results' = <<>>
    /\ context_data' = <<>>
    /\ task_result' = <<>>
    /\ gathered' = {}
    /\ UNCHANGED <<search_calls, aside_vars>>
    /\ UNCHANGED <<academic_client, session, reply, unit, response, searched,
                   extracted_count, llm_calls, extract_kind>>

NextJudge ==
    \/ BuildContext
    \/ JudgeReply

SpecJudge == InitJudge /\ [][NextJudge]_vars


----------------------------------------------------------------------------
\* Properties of verify_legal_blog (checked under Spec).

TheReport == report[1]

\* The adjudication oracle was called and its call raised or its response
\* could not be turned into verdict records.
JudgeFailed ==
    /\ Len(judge_out) = 1
    /\ \/ judge_out[1].kind # "json"
       \/ judge_out[1].fact_checks = {PyNone}
       \/ /\ judge_out[1].fact_checks # {}
          /\ \E j \in DOMAIN GetOpt(judge_out[1].fact_checks, PyList(<<>>)).items :
                GetOpt(judge_out[1].fact_checks, PyList(<<>>)).items[j].verdict = {Null}

JudgeParsed == Len(judge_out) = 1 /\ ~JudgeFailed

\* C2: a run never lets an exception reach the caller; it ends with one Report.
C2_AlwaysReport ==
    /\ pc # "raised"
    /\ pc = "done" => Len(report) = 1

\* C5: when extraction succeeds with zero claims the Report has
\* total_claims_extracted = 0, verified_claims = 0, accuracy_score = 0, no
\* verdicts and no recommendation.
C5_NothingToVerify ==
    (pc = "done" /\ extract_kind = "json" /\ extracted_count = 0) =>
        /\ TheReport.total_claims_extracted = 0
        /\ TheReport.verified_claims = 0
        /\ TheReport.accuracy_score = 0
        /\ TheReport.fact_checks = <<>>
        /\ TheReport.recommendations = <<>>

\* C6: with n >= 1 extracted claims, a failed adjudication gives a Report with
\* total_claims_extracted = n, no verdicts and recommendations
\* ["Analysis failed."].
C6_JudgeFailure ==
    (pc = "done" /\ extracted_count >= 1 /\ JudgeFailed) =>
        /\ TheReport.total_claims_extracted = extracted_count
        /\ TheReport.fact_checks = <<>>
        /\ TheReport.recommendations = <<"Analysis failed.">>

C6_Witness ==
    /\ pc = "done"
    /\ extracted_count = MaxClaims
    /\ Len(judge_out) = 1
    /\ judge_out[1].kind = "raise"
    /\ TheReport.total_claims_extracted = MaxClaims
    /\ TheReport.recommendations = <<"Analysis failed.">>

\* C7: the verdicts of a Report built from a parsed adjudication response are
\* in claim extraction order (sentence_id ascending).
C7_VerdictOrder ==
    (pc = "done" /\ JudgeParsed) =>
        \A j, k \in DOMAIN TheReport.fact_checks :
            j < k => TheReport.fact_checks[j].sentence_id
                        < TheReport.fact_checks[k].sentence_id

\* C9: a Report never has more verdicts than total_claims_extracted.
C9_VerdictsBounded ==
    pc = "done" => Len(TheReport.fact_checks) <= TheReport.total_claims_extracted

\* C10: a Report of a run that did not reach the adjudication oracle, or whose
\* adjudication failed, has no verdicts and a recommendation; a Report built
\* from a parsed adjudication response has no recommendation.
C10_Recommendations ==
    pc = "done" =>
        /\ (llm_calls.judge = 0 \/ JudgeFailed) =>
              /\ TheReport.fact_checks = <<>>
              /\ TheReport.recommendations # <<>>
        /\ JudgeParsed => TheReport.recommendations = <<>>

C10_Witness ==
    /\ pc = "done"
    /\ llm_calls.judge = 0
    /\ extract_kind = "json"
    /\ extracted_count = 0
    /\ TheReport.fact_checks = <<>>
    /\ TheReport.recommendations = <<"Analysis failed.">>

\* The records held by the four fields of a bundle.
Records(ev) ==
    UNION {{Field(ev, s).items[j] : j \in DOMAIN Field(ev, s).items} : s \in Sources}

\* The records shown in the four views of a payload entry.
Shown(entry) ==
    UNION {{v[j] : j \in DOMAIN v} :
              v \in {entry.evidence.indian_kanoon, entry.evidence.fact_check_db,
                     entry.evidence.web_search, entry.evidence.academic}}

\* C11: whatever order the gathering tasks complete in, a completed task of
\* claim i returned a bundle for claim i; when gathering is over there are as
\* many bundles as claims, the i-th has the i-th claim's id and only results of
\* searches made with the i-th claim's query; the payload pairs the i-th
\* claim with the view of the i-th bundle.
C11_BundlePairing ==
    /\ pc = "gather" =>
          \A i \in gathered :
              /\ ~task_result[i].raised
              /\ task_result[i].value.claim_id = extracted_claims[i].sentence_id
    /\ pc \in {"judge", "judging"} =>
          /\ Len(evidence_results) = Len(extracted_claims)
          /\ \A i \in DOMAIN extracted_claims :
                /\ evidence_results[i].claim_id = extracted_claims[i].sentence_id
                /\ \A x \in Records(evidence_results[i]) :
                      x.query = extracted_claims[i].search_query
    /\ pc = "judging" =>
          /\ Len(context_data) = Len(extracted_claims)
          /\ \A i \in DOMAIN extracted_claims :
                /\ context_data[i].sentence_id = extracted_claims[i].sentence_id
                /\ context_data[i].sentence_id = evidence_results[i].claim_id
                /\ \A x \in Shown(context_data[i]) :
                      x.query = extracted_claims[i].search_query

\* Two claims, every source answering with hits, the payload built.
C11_Witness ==
    /\ pc = "judging"
    /\ Len(extracted_claims) = 2
    /\ extracted_claims[1].search_query # extracted_claims[2].search_query
    /\ \A i \in 1..2 :
          /\ context_data[i].sentence_id = i
          /\ context_data[i].evidence.web_search # <<>>
          /\ \A x \in Shown(context_data[i]) : x.query = extracted_claims[i].search_query

\* The search clients the service was constructed with.
Configured ==
    {"fact_check", "news", "indian_kanoon"} \cup
        (IF academic_client THEN {"academic"} ELSE {})

\* C12: no session is open and no search has been made before the gathering
\* block is entered; while the gathering tasks run every configured client's
\* session is open, and every search call is issued with all of them open and
\* leaves them open; once the gathering block is left, however it is left
\* (gather returned, opening a session raised, gather raised), and after the
\* run returned or raised, no client holds an open session.
C12_SessionLifetime ==
    /\ [](pc \in {"extract", "enter"} => (session = NoSessions /\ searched = {}))
    /\ [](pc = "gather" => \A s \in Configured : session[s])
    /\ [](pc \in {"judge", "judging", "done", "raised"} => session = NoSessions)
    /\ [][searched' # searched =>
            \A s \in Configured : session[s] /\ session'[s]]_vars

\* Gathering with four clients has searched every source and returned; the
\* sessions are closed before the payload is built.
C12_Witness ==
    /\ pc = "judge"
    /\ academic_client
    /\ UNION {SearchedFor(i) : i \in 1..MaxClaims} = Sources
    /\ session = NoSessions

\* C13: a run calls the extraction oracle exactly once; a run that ended has
\* called the adjudication oracle exactly once when at least one claim was
\* extracted and never otherwise; no run calls it more than once.
C13_OracleCalls ==
    /\ pc # "extract" => llm_calls.extract = 1
    /\ llm_calls.judge <= 1
    /\ pc \in {"done", "raised"} =>
          llm_calls.judge = (IF extracted_count >= 1 THEN 1 ELSE 0)

\* The extraction oracle's call raised, or its output was not JSON or not a
\* JSON object.
ExtractionFailed == extract_kind \in {"raise", "unparsable", "nondict"}

\* C14: when extraction fails the run is over with a Report, having made no
\* search call and no adjudication call and opened no session; the Report has
\* total_claims_extracted = 0, no verdicts and recommendations
\* ["Analysis failed."].
C14_ExtractionFailure ==
    ExtractionFailed =>
        /\ pc = "done"
        /\ searched = {}
        /\ llm_calls.judge = 0
        /\ session = NoSessions
        /\ Len(report) = 1
        /\ TheReport.total_claims_extracted = 0
        /\ TheReport.fact_checks = <<>>
        /\ TheReport.recommendations = <<"Analysis failed.">>

C14_Witness ==
    /\ extract_kind = "unparsable"
    /\ pc = "done"
    /\ llm_calls = [extract |-> 1, judge |-> 0]
    /\ TheReport = generate_empty_report(0)

\* The gathering tasks asyncio.gather has started and that have not completed.
InFlight == IF pc = "gather" THEN Len(extracted_claims) - Cardinality(gathered) ELSE 0

\* A limit on concurrently running gathering tasks that is smaller than the
\* number of claims a document may yield.
InFlightLimit == MaxClaims - 1

\* C15: the number of gathering tasks in flight never exceeds the limit,
\* however many claims were extracted.
C15_BoundedInFlight == InFlight <= InFlightLimit

\* The stage of the run. A run that ended with a Report built from a parsed
\* adjudication response is Done; one that ended with any other Report is
\* Degraded; one that ended with an exception is neither.
Stage ==
    CASE pc = "extract" -> "Extracting"
      [] pc \in {"enter", "gather"} -> "GatheringEvidence"
      [] pc \in {"judge", "judging"} -> "Adjudicating"
      [] pc = "done" /\ JudgeParsed -> "Done"
      [] pc = "done" /\ ~JudgeParsed -> "Degraded"
      [] OTHER -> "Raised"

StageSteps ==
    {<<"Extracting", "GatheringEvidence">>, <<"GatheringEvidence", "GatheringEvidence">>,
     <<"GatheringEvidence", "Adjudicating">>, <<"Adjudicating", "Adjudicating">>,
     <<"Adjudicating", "Done">>, <<"Extracting", "Degraded">>,
     <<"GatheringEvidence", "Degraded">>, <<"Adjudicating", "Degraded">>}

StageStep == <<Stage, Stage'>> \in StageSteps

\* The adjudication oracle is called only when every claim's gathering task
\* has completed.
JudgeAfterGathering ==
    llm_calls.judge' # llm_calls.judge =>
        (pc = "judge" /\ gathered = 1..Len(extracted_claims))

\* No search is made once the adjudication oracle has been called.
NoSearchAfterJudge == llm_calls.judge >= 1 => searched' = searched

\* No external call is made once the run has ended.
NoCallAfterEnd ==
    pc \in {"done", "raised"} => (searched' = searched /\ llm_calls' = llm_calls)

\* The ordering of the external calls of a run: no search before the
\* extraction call has returned; the adjudication call only when every claim's
\* gathering task has completed; no search once the adjudication call has
\* been made; no call once the run has ended.
CallOrder ==
    /\ [](llm_calls.extract = 0 => searched = {})
    /\ [][JudgeAfterGathering]_vars
    /\ [][NoSearchAfterJudge]_vars
    /\ [][NoCallAfterEnd]_vars

\* C16: a run moves through Extracting, GatheringEvidence, Adjudicating and
\* Done in this order, Degraded being the only other state it can end in, and
\* its external calls are made in the order of the stages.
C16_StageOrder ==
    /\ [](Stage \in {"Extracting", "GatheringEvidence", "Adjudicating", "Done",
                     "Degraded"})
    /\ [][StageStep]_vars
    /\ CallOrder

----------------------------------------------------------------------------
\* Properties of _generate_final_verdict_llm (checked under SpecJudge).

TheReply == judge_out[1]
RepliedItems == GetOpt(TheReply.fact_checks, PyList(<<>>)).items

\* The oracle answered with a JSON object whose fact_checks, when given, is a
\* list of objects in which every field is missing or has a value of its type.
ReplyWellTyped ==
    /\ Len(judge_out) = 1
    /\ TheReply.kind = "json"
    /\ GetOpt(TheReply.fact_checks, PyList(<<>>)).py = "list"
    /\ \A j \in DOMAIN RepliedItems :
          /\ RepliedItems[j].verdict # {Null}
          /\ RepliedItems[j].claim # {Null}
          /\ RepliedItems[j].source_type # {Null}
          /\ RepliedItems[j].legal_authority_level # {Null}

\* C17: when the adjudication response parses, the Report is not a failure
\* Report and has one verdict per item, in the items' order; a verdict whose
\* item lacks verdict, source_type, legal_authority_level or source has
\* "unverifiable", "secondary", "secondary" or "Unknown" for it, and the
\* value of the item for every field the item gives.
C17_Defaults ==
    (pc = "done" /\ ReplyWellTyped) =>
        /\ TheReport.recommendations = <<>>
        /\ Len(TheReport.fact_checks) = Len(RepliedItems)
        /\ \A j \in DOMAIN RepliedItems :
              LET item == RepliedItems[j]
                  fc == TheReport.fact_checks[j]
              IN  /\ item.verdict = {} => fc.verdict = "unverifiable"
                  /\ item.source_type = {} => fc.source_type = "secondary"
                  /\ item.legal_authority_level = {} =>
                        fc.legal_authority_level = "secondary"
                  /\ item.source = {} => fc.source = "Unknown"
                  /\ item.verdict # {} => fc.verdict \in {LowerVerdict(v) : v \in item.verdict}
                  /\ item.source_type # {} => fc.source_type \in item.source_type
                  /\ item.legal_authority_level # {} =>
                        fc.legal_authority_level \in item.legal_authority_level
                  /\ item.source = {"Supreme Court"} => fc.source = "Supreme Court"

\* An item without any of the four fields, followed by a complete item.
C17_Witness ==
    /\ pc = "done"
    /\ ReplyWellTyped
    /\ Len(RepliedItems) = 2
    /\ RepliedItems[1].verdict = {}
    /\ RepliedItems[1].source = {}
    /\ RepliedItems[1].source_type = {}
    /\ RepliedItems[1].legal_authority_level = {}
    /\ RepliedItems[2] = CompleteItem
    /\ Len(TheReport.fact_checks) = 2
    /\ TheReport.fact_checks[1].verdict = "unverifiable"
    /\ TheReport.fact_checks[1].source = "Unknown"
    /\ TheReport.fact_checks[1].source_type = "secondary"
    /\ TheReport.fact_checks[1].legal_authority_level = "secondary"
    /\ TheReport.fact_checks[2].verdict = "accurate"

\* C18: on a parsed adjudication response each aggregate of the Report is the
\* value the oracle gave, or, when the oracle gave none, the number of
\* extracted claims (total_claims_extracted, verifiable_claims), the number of
\* parsed verdicts (verified_claims), 0 (accuracy_score), the empty mapping
\* (claims_breakdown).
C18_Aggregates ==
    (pc = "done" /\ ReplyWellTyped) =>
        /\ TheReply.total_claims_extracted = {} =>
              TheReport.total_claims_extracted = extracted_count
        /\ \A v \in TheReply.total_claims_extracted :
              TheReport.total_claims_extracted = v
        /\ TheReply.verifiable_claims = {} =>
              TheReport.verifiable_claims = extracted_count
        /\ \A v \in TheReply.verifiable_claims : TheReport.verifiable_claims = v
        /\ TheReply.verified_claims = {} =>
              TheReport.verified_claims = Len(TheReport.fact_checks)
        /\ \A v \in TheReply.verified_claims : TheReport.verified_claims = v
        /\ TheReply.accuracy_score = {} => TheReport.accuracy_score = 0
        /\ \A v \in TheReply.accuracy_score : TheReport.accuracy_score = v
        /\ TheReply.claims_breakdown = {} => TheReport.claims_breakdown = EmptyDict
        /\ \A v \in TheReply.claims_breakdown : TheReport.claims_breakdown = v

\* The oracle gave a total and a score but no verified_claims, and fewer
\* verdicts than there are claims.
C18_Witness ==
    /\ pc = "done"
    /\ ReplyWellTyped
    /\ extracted_count = MaxClaims
    /\ TheReply.total_claims_extracted = {0}
    /\ TheReply.accuracy_score = {50}
    /\ TheReply.verifiable_claims = {}
    /\ TheReply.verified_claims = {}
    /\ Len(RepliedItems) = 1
    /\ TheReport.total_claims_extracted = 0
    /\ TheReport.accuracy_score = 50
    /\ TheReport.verifiable_claims = MaxClaims
    /\ TheReport.verified_claims = 1

\* C19: the payload has one entry per claim, in the claims' order, with the
\* claim's sentence_id, sentence_text and claim_type; its legal-database view
\* shows the first 3 records of the bundle's legal results (all of them when
\* there are fewer), in order, and its fact-check, web and academic views show
\* every record of the bundle's fields, in order.
C19_Payload ==
    pc = "judging" =>
        /\ Len(context_data) = Len(extracted_claims)
        /\ \A i \in DOMAIN extracted_claims :
              LET entry == context_data[i]
                  ev == evidence_results[i]
                  legal == entry.evidence.indian_kanoon
              IN  /\ entry.sentence_id = extracted_claims[i].sentence_id
                  /\ entry.original_sentence = extracted_claims[i].sentence_text
                  /\ entry.claim_type = extracted_claims[i].claim_type
                  /\ Len(legal) <= 3
                  /\ Len(legal) = Min(3, Len(ev.indian_kanoon_results.items))
                  /\ \A j \in DOMAIN legal :
                        legal[j] = View(ev.indian_kanoon_results.items[j])
                  /\ entry.evidence.web_search = Views(ev.news_results.items)
                  /\ Len(entry.evidence.web_search) = Len(ev.news_results.items)
                  /\ entry.evidence.fact_check_db = Views(ev.google_fact_checks.items)
                  /\ Len(entry.evidence.fact_check_db) = Len(ev.google_fact_checks.items)
                  /\ entry.evidence.academic = Views(ev.academic_results.items)
                  /\ Len(entry.evidence.academic) = Len(ev.academic_results.items)

\* Two claims whose bundles hold more than 3 legal records.
C19_Witness ==
    /\ pc = "judging"
    /\ Len(extracted_claims) = 2
    /\ \A i \in 1..2 :
          /\ Len(evidence_results[i].indian_kanoon_results.items) > 3
          /\ Len(context_data[i].evidence.indian_kanoon) = 3
          /\ context_data[i].evidence.indian_kanoon[3].rank = 3
          /\ Len(context_data[i].evidence.web_search) = MaxRecords

\* C20: every verdict of a returned Report is accurate, inaccurate or
\* unverifiable, and has a corrected sentence only when it is not accurate.
C20_VerdictDomain ==
    pc = "done" =>
        \A j \in DOMAIN TheReport.fact_checks :
            /\ TheReport.fact_checks[j].verdict \in
                  {"accurate", "inaccurate", "unverifiable"}
            /\ TheReport.fact_checks[j].corrected_sentence # Null =>
                  TheReport.fact_checks[j].verdict # "accurate"

----------------------------------------------------------------------------
\* More properties of _gather_evidence_for_claim (checked under SpecGather).

\* C21: no source is searched more than once for a claim; a unit that is done
\* has called search() once when the routing table selects the source for the
\* claim and the client exists, and not at all otherwise; the field of a
\* source whose one call failed is empty in the bundle.
C21_NoRetry ==
    /\ \A s \in Sources : search_calls[<<1, s>>] <= 1
    /\ \A s \in Sources :
          unit[s] = "done" =>
              search_calls[<<1, s>>] =
                  (IF /\ s \in RoutingTable(Lower(TheClaim.claim_type))
                      /\ s = "academic" => academic_client
                      THEN 1 ELSE 0)
    /\ pc = "gather_returned" =>
          \A s \in Sources :
              (search_calls[<<1, s>>] = 1 /\ SearchFailed(response[s])) =>
                  Field(evidence_results[1], s) = PyList(<<>>)

\* The legal-database call raised and was made once; its field is empty.
C21_Witness ==
    /\ pc = "gather_returned"
    /\ TheClaim.claim_type = "legal_fact"
    /\ response["indian_kanoon"].kind = "raise"
    /\ search_calls[<<1, "indian_kanoon">>] = 1
    /\ search_calls[<<1, "news">>] = 1
    /\ search_calls[<<1, "academic">>] = 0
    /\ evidence_results[1].indian_kanoon_results = PyList(<<>>)

----------------------------------------------------------------------------
\* Termination of verify_legal_blog (checked under FairSpec).

\* The run has ended, with a Report or with an exception.
Ended == pc \in {"done", "raised"}

\* C22: when every external call returns or raises and the tasks are
\* scheduled fairly, every run eventually ends in Done or Degraded.
C22_Terminates == <>(Stage \in {"Done", "Degraded"})

----------------------------------------------------------------------------
\* Timeouts of the source calls (checked under SpecSilent).

\* C23: every search call the gatherer makes carries a timeout, and the
\* gathering of the claim eventually completes even when a searched service
\* never answers, the field of that service being empty.
C23_Timeout ==
    /\ [](\A s \in SearchedFor(1) : "timeout" \in SearchKwargs(s))
    /\ <>(pc \in {"gather_returned", "gather_raised"})
    /\ [](pc = "gather_returned" =>
            \A s \in Sources :
                reply[s] = "silent" => Field(evidence_results[1], s) = PyList(<<>>))

----------------------------------------------------------------------------
\* Two overlapping runs on one service (checked under SpecOverlap).

\* C24: while a run is gathering, the session field of every client it
\* entered holds the session that run opened; no search of a run fails for
\* want of a usable session; when both runs have ended every session that was
\* opened has been closed.
C24_OverlapSafe ==
    /\ \A r \in Runs :
          run_pc[r].at = "gather" => \A s \in Entered : session_of[s] = r
    /\ run_failed = {}
    /\ (\A r \in Runs : run_pc[r].at = "done") => live_sessions = {}

----------------------------------------------------------------------------
\* extract_claims over any oracle output (checked under SpecExtract).

TheItems == oracle_out.claims

\* Item i can be turned into a Claim: no field holds null, and a missing
\* search_query has a sentence text to fall back on.
Convertible(i) ==
    /\ TheItems[i].sentence_id # {JsonNull(0)}
    /\ TheItems[i].claim_type # {JsonNull("")}
    /\ TheItems[i].search_query = {} => TheItems[i].sentence_text # {}

\* The Claim of item i, with the defaults for missing fields.
ClaimOfItem(i) ==
    LET item == TheItems[i]
        text == IF item.sentence_text = {} THEN 0
                ELSE (CHOOSE x \in item.sentence_text : TRUE).v
    IN  [sentence_id |-> IF item.sentence_id = {} THEN 0
                         ELSE (CHOOSE x \in item.sentence_id : TRUE).v,
         sentence_text |-> text,
         claim_type |-> IF item.claim_type = {} THEN "legal_fact"
                        ELSE (CHOOSE x \in item.claim_type : TRUE).v,
         search_query |-> IF item.search_query = {} THEN text
                          ELSE (CHOOSE x \in item.search_query : TRUE).v]

\* C25: extract_claims returns either one Claim per item of the oracle's
\* claims list, in the oracle's order and with the defaults for missing
\* fields, or the empty list; one item that cannot be turned into a Claim
\* makes the result empty.
C25_AllOrNothing ==
    pc = "extracted" =>
        /\ \/ extracted_claims = <<>>
           \/ /\ Len(extracted_claims) = Len(TheItems)
              /\ \A i \in 1..Len(TheItems) : extracted_claims[i] = ClaimOfItem(i)
        /\ (\E i \in 1..Len(TheItems) : ~Convertible(i)) => extracted_claims = <<>>
        /\ (oracle_out.kind = "json" /\ \A i \in 1..Len(TheItems) : Convertible(i))
              => Len(extracted_claims) = Len(TheItems)

\* A list whose first item is complete and whose second holds null yields
\* nothing.
C25_Witness ==
    /\ pc = "extracted"
    /\ Len(TheItems) = 2
    /\ Convertible(1)
    /\ TheItems[1].search_query = {}
    /\ ~Convertible(2)
    /\ extracted_claims = <<>>

====
